---- MODULE Spec2Model ----
(***************************************************************************)
(* Dividend proxy (src/app.py) and franking cache refresh                  *)
(* (src/scrape_fran_cache.py).                                             *)
(*                                                                         *)
(* src/app.py holds several revisions of the same functions one after the  *)
(* other.  Two of them differ in behaviour and are both modelled, selected *)
(* by the variable `variant`:                                              *)
(*   "next" : lines 109-195, get_all_pages follows the 'next' link,        *)
(*            adj shifts the indices after the distribution-type column;   *)
(*   "bfs"  : lines 515-635, get_all_pages crawls the pagination links     *)
(*            breadth first, adj shifts the indices at or after ex_i.      *)
(*                                                                         *)
(* Units: money is counted in cents (1/100 dollar), percentages in whole   *)
(* percent, a reported percentage in hundredths of a percent.  Python's    *)
(* floats are modelled by exact integer arithmetic.                        *)
(***************************************************************************)
EXTENDS Integers, Sequences, FiniteSets, Bags, TLC

VARIABLES
    ref_date,     \* previous_fy_bounds: the argument `today`
    fy_result,    \* previous_fy_bounds: the value returned, None before the call
    hi_headers,   \* header_index: the argument `headers`
    hi_needles,   \* header_index: the arguments `*needles`
    hi_result,    \* header_index: <<value returned>>, None before the call
    m_pc,         \* scrape_fran_cache.main: "off", "start", "loop", "rows", "written"
    codes,        \* ASX_CODES
    cache,        \* the entries of franking_cache.json, by code
    data,         \* main: the dict `data`
    ci,           \* main: the 1-based position of `code` in ASX_CODES
    asx_today,    \* fetch_franking_asx: datetime.utcnow().date()
    cutoff,       \* fetch_franking_asx: cutoff
    tot_div,      \* fetch_franking_asx: tot_div
    tot_frank,    \* fetch_franking_asx: tot_frank
    asx_tds,      \* fetch_franking_asx: the cells of the row of the last iteration
    asx_rows,     \* fetch_franking_asx: the rows iterated over so far
    fran,         \* main: fran of the last code, <<value>> or None
    outcomes,     \* history: how the fetch of each code so far ended
    variant,      \* "next" or "bfs": the revision of the scraper that runs
    pc,           \* where the request is: "idle", "pages", "soup", "rows", "done"
    next_url,     \* get_all_pages ("next"): the URL to fetch, 0 for None
    queue,        \* get_all_pages ("bfs"): the URLs still to visit
    visited,      \* get_all_pages ("bfs"): the URLs already taken from the queue,
                  \* kept by fetch_dividend_stats as crawl_trace["visited"]
    soups,        \* len(soups): the pages collected so far
    fy,           \* fetch_dividend_stats: <<fy_start, fy_end>>
    si,           \* `for soup in soups`: the 1-based position of the current soup
    ti,           \* the tables of the current soup seen so far
    hdrs,         \* the header texts of the current table
    ex_i, div_i, fran_i, dist_i,  \* the resolved column indices (NoIdx for None)
    tds,          \* the cells of the row of the last loop iteration
    nrows,        \* the rows iterated over so far, in all tables
    had_table,    \* history: a wanted table of the current soup has been iterated
    ex,           \* the two executions of fetch_dividend_stats, by `debug`
    resp,         \* the response of stock() to each of the two requests
    events        \* history: the bag of <<amount, franking>> of the rows that qualify

fyVars == <<ref_date, fy_result>>

hiVars == <<hi_headers, hi_needles, hi_result>>

\* The variables of the functions checked on their own.
cacheVars == <<m_pc, codes, cache, data, ci, asx_today, cutoff, tot_div, tot_frank,
               asx_tds, asx_rows, fran, outcomes>>

sideVars == <<fyVars, hiVars, cacheVars>>

walkVars == <<next_url, queue, visited, soups>>

tableVars == <<hdrs, ex_i, div_i, fran_i, dist_i>>

loopVars == <<fy, si, ti, tds, nrows, had_table, events>>

requestVars == <<variant, pc, walkVars, tableVars, loopVars, ex, resp>>

\* What a run of scrape_fran_cache.py does not touch.
nonCacheVars == <<fyVars, hiVars, requestVars>>

vars == <<sideVars, variant, pc, walkVars, tableVars, loopVars, ex, resp>>

\* Python's None, for values that are otherwise tuples; an optional number n
\* is the one-element tuple <<n>>.
None == <<>>

(***************************************************************************)
(* Calendar dates: datetime.date as <<year, month, day>>.                  *)
(***************************************************************************)
YearLo == 2023
YearHi == 2025

IsLeap(y) == (y % 4 = 0 /\ y % 100 # 0) \/ y % 400 = 0

DaysInMonth(y, m) ==
    IF m = 2 THEN (IF IsLeap(y) THEN 29 ELSE 28)
    ELSE IF m \in {4, 6, 9, 11} THEN 30 ELSE 31

date(y, m, d) == <<y, m, d>>

Year(dt) == dt[1]
Month(dt) == dt[2]
Day(dt) == dt[3]

\* date.__lt__ / __le__ : chronological order.
DateLT(a, b) ==
    \/ Year(a) < Year(b)
    \/ Year(a) = Year(b) /\ Month(a) < Month(b)
    \/ Year(a) = Year(b) /\ Month(a) = Month(b) /\ Day(a) < Day(b)

DateLE(a, b) == a = b \/ DateLT(a, b)

CalendarDates ==
    {dt \in (YearLo..YearHi) \X (1..12) \X (1..31) :
        dt[3] <= DaysInMonth(dt[1], dt[2])}

NextDay(dt) ==
    IF Day(dt) < DaysInMonth(Year(dt), Month(dt))
    THEN date(Year(dt), Month(dt), Day(dt) + 1)
    ELSE IF Month(dt) < 12 THEN date(Year(dt), Month(dt) + 1, 1)
    ELSE date(Year(dt) + 1, 1, 1)

(***************************************************************************)
(* previous_fy_bounds (src/app.py:33-36).                                  *)
(***************************************************************************)
\* previous_fy_bounds with the year turning a month early.
previous_fy_bounds_early(today) ==
    LET start_year == IF Month(today) >= 6 THEN Year(today) - 1 ELSE Year(today) - 2
    IN  <<date(start_year, 7, 1), date(start_year + 1, 6, 30)>>

previous_fy_bounds(today) ==
    LET start_year == IF Month(today) >= 7 THEN Year(today) - 1 ELSE Year(today) - 2
    IN  <<date(start_year, 7, 1), date(start_year + 1, 6, 30)>>

(***************************************************************************)
(* Text.  A Python str is the sequence of its characters.                  *)
(***************************************************************************)
S_ex == <<"e", "x">>
S_dividend == <<"d", "i", "v", "i", "d", "e", "n", "d">>
S_franking == <<"f", "r", "a", "n", "k", "i", "n", "g">>
S_distribution == <<"d", "i", "s", "t", "r", "i", "b", "u", "t", "i", "o", "n">>
S_date == <<"d", "a", "t", "e">>

\* Header cells as line 143 produces them: get_text(strip=True).lower().
H_ex_dividend_date == <<"e", "x", " ", "d", "i", "v", "i", "d", "e", "n", "d", " ", "d", "a", "t", "e">>
H_dividend == <<"d", "i", "v", "i", "d", "e", "n", "d">>
H_franking == <<"f", "r", "a", "n", "k", "i", "n", "g">>
H_distribution_type == <<"d", "i", "s", "t", "r", "i", "b", "u", "t", "i", "o", "n", " ", "t", "y", "p", "e">>
H_name == <<"n", "a", "m", "e">>
H_value == <<"v", "a", "l", "u", "e">>

\* `n in h` for two str.
IsSubstring(n, h) ==
    \E i \in 0..(Len(h) - Len(n)) : SubSeq(h, i + 1, i + Len(n)) = n

\* str.strip(): the text without its leading and trailing blanks.
RECURSIVE LStrip(_)
LStrip(h) == IF h # <<>> /\ Head(h) = " " THEN LStrip(Tail(h)) ELSE h

RECURSIVE RStrip(_)
RStrip(h) ==
    IF h # <<>> /\ h[Len(h)] = " " THEN RStrip(SubSeq(h, 1, Len(h) - 1)) ELSE h

Strip(h) == RStrip(LStrip(h))

\* str.lower() on the letters that occur in the model's texts.
LowerChar(c) ==
    CASE c = "E" -> "e" [] c = "X" -> "x" [] c = "D" -> "d" [] c = "A" -> "a"
      [] c = "T" -> "t" [] OTHER -> c

Lower(h) == [i \in 1..Len(h) |-> LowerChar(h[i])]

\* " ".join(texts)
RECURSIVE Join(_)
Join(texts) ==
    IF texts = <<>> THEN <<>>
    ELSE IF Len(texts) = 1 THEN texts[1]
    ELSE texts[1] \o <<" ">> \o Join(Tail(texts))

\* Python's None for a column index (the indices themselves are 0-based).
NoIdx == -1

\* The first 0-based position among `headers` of a text in the set `hits`, or
\* NoIdx: the inner loop `for i, h in enumerate(headers)`.
FirstIndex(headers, hits) ==
    IF \E i \in 1..Len(headers) : headers[i] \in hits
    THEN (CHOOSE i \in 1..Len(headers) :
             /\ headers[i] \in hits
             /\ \A j \in 1..(i - 1) : headers[j] \notin hits) - 1
    ELSE NoIdx

HeaderSet(headers) == {headers[i] : i \in 1..Len(headers)}

\* Lines 98-101: the needles in order, each compared with every stripped header.
RECURSIVE ExactTier(_, _)
ExactTier(headers, needles) ==
    IF needles = <<>> THEN NoIdx
    ELSE LET n == Head(needles)
             i == FirstIndex(headers, {h \in HeaderSet(headers) : Strip(h) = n})
         IN  IF i # NoIdx THEN i ELSE ExactTier(headers, Tail(needles))

\* Lines 102-105: the needles in order, each searched in every header.
RECURSIVE SubstringTier(_, _)
SubstringTier(headers, needles) ==
    IF needles = <<>> THEN NoIdx
    ELSE LET n == Head(needles)
             i == FirstIndex(headers, {h \in HeaderSet(headers) : IsSubstring(n, h)})
         IN  IF i # NoIdx THEN i ELSE SubstringTier(headers, Tail(needles))

\* header_index (src/app.py:95-106): every needle exactly, then every needle
\* as a substring.
header_index(headers, needles) ==
    LET ns == [k \in 1..Len(needles) |-> Lower(needles[k])]
        exact == ExactTier(headers, ns)
    IN  IF exact # NoIdx THEN exact ELSE SubstringTier(headers, ns)

\* wanted_table (src/app.py:90-92), on the table's header texts.
wanted_table(ths) ==
    LET hdr == Join(ths)
    IN  IsSubstring(S_ex, hdr) /\ IsSubstring(S_dividend, hdr) /\ IsSubstring(S_date, hdr)

(***************************************************************************)
(* Table cells.  A cell is <<kind, a, b, c>>, standing for its text:       *)
(*   <<"date", y, m, d>>     "01 Jul 24"  (day, month name, 2-digit year)   *)
(*   <<"dollars", n, 0, 0>>  "$1.00", or "-$1.00" for n < 0; n in cents,   *)
(*                           a whole number of dollars                     *)
(*   <<"cents", n, 0, 0>>    "50c"; n a whole number of cents              *)
(*   <<"pct", n, 0, 0>>      "100%"                                        *)
(*   <<"text", 0, 0, 0>>     a word without digits ("Final")               *)
(***************************************************************************)
DateCell(dt) == <<"date", dt[1], dt[2], dt[3]>>
DollarCell(n) == <<"dollars", n, 0, 0>>
CentCell(n) == <<"cents", n, 0, 0>>
PctCell(n) == <<"pct", n, 0, 0>>
TextCell == <<"text", 0, 0, 0>>

Kind(cell) == cell[1]

Abs(n) == IF n < 0 THEN -n ELSE n

\* parse_exdate (src/app.py:39-63): "%d %b %y" reads a date cell; no format and
\* no dateutil parse reads a text with "$", "%", a unit letter or a bare word.
parse_exdate(cell) ==
    IF Kind(cell) = "date" THEN date(cell[2], cell[3], cell[4]) ELSE None

\* _parse_num (src/app.py:66-71) on a numeral that float() accepts, given as
\* its value in hundredths; the result is in cents.
_parse_num(hundredths, cents_hint) ==
    IF cents_hint THEN hundredths \div 100 ELSE hundredths

\* clean_amount_cell (src/app.py:74-86), in cents.  float() accepts the text of
\* a dollars cell once "$" is removed; for every other text the regular
\* expression takes the first numeral and the unit that follows it.
clean_amount_cell(td) ==
    CASE Kind(td) = "dollars" -> <<_parse_num(td[2], FALSE)>>
      [] Kind(td) = "cents"   -> <<_parse_num(100 * td[2], TRUE)>>
      [] Kind(td) = "date"    -> <<_parse_num(100 * td[4], FALSE)>>
      [] Kind(td) = "pct"     -> <<_parse_num(100 * td[2], FALSE)>>
      [] OTHER                -> None

\* Lines 163-169: float(re.sub(r"[^\d.]", "", fran_txt)), 0.0 when that is not
\* a number; in percent.  The digits and dots of the text are kept and
\* everything else, a sign included, is dropped: "$1.00" gives 1.0, "1c" gives
\* 1.0 and "30 Jun 25" gives 3025.0.
franking_of(td) ==
    CASE Kind(td) = "pct"     -> td[2]
      [] Kind(td) = "dollars" -> Abs(td[2]) \div 100
      [] Kind(td) = "cents"   -> td[2]
      [] Kind(td) = "date"    -> (td[4] * 100) + (td[2] % 100)
      [] OTHER                -> 0

\* round(n / d) to the nearest integer, ties to the even one, for d > 0.
RoundHalfEven(n, d) ==
    LET q == n \div d
        r == n % d
    IN  IF 2 * r < d THEN q
        ELSE IF 2 * r > d THEN q + 1
        ELSE IF q % 2 = 0 THEN q ELSE q + 1

\* round(franked_cash / cash * 100, 2) in hundredths of a percent, for cash in
\* cents and franked_cash in cents times percent: 100 * franked_cash / cash,
\* rounded.  The whole percents are split off before the scaling by 100.
Percent2(franked_cash, cash) ==
    LET n == IF cash < 0 THEN -franked_cash ELSE franked_cash
        d == Abs(cash)
    IN  100 * (n \div d) + RoundHalfEven(100 * (n % d), d)

\* Python's list indexing: tds[i] for -len <= i < len, IndexError otherwise.
InRange(row, i) == -Len(row) <= i /\ i < Len(row)

At(row, i) == row[IF i >= 0 THEN i + 1 ELSE Len(row) + i + 1]

(***************************************************************************)
(* The body of the row loop of fetch_dividend_stats, for the row `row` of  *)
(* the current table (hdrs, ex_i, div_i, fran_i, dist_i).                  *)
(***************************************************************************)
\* Lines 154, 585: shift = len(tds) - len(hdrs).
Shift(row) == Len(row) - Len(hdrs)

\* adj of lines 156-158 ("next") and of lines 587-588 ("bfs").
adj(idx, row) ==
    IF variant = "next"
    THEN (IF Shift(row) # 0 /\ dist_i # NoIdx /\ idx > dist_i
          THEN idx + Shift(row) ELSE idx)
    ELSE (IF Shift(row) # 0 /\ idx >= ex_i THEN idx + Shift(row) ELSE idx)

\* An IndexError leaves the body before the accumulators are touched:
\* lines 160-165 index tds unguarded; lines 595 and 598 guard only the upper
\* end, and line 591 catches the error.
BodyRaises(row) ==
    IF variant = "next"
    THEN \/ ~InRange(row, adj(ex_i, row))
         \/ ~InRange(row, adj(div_i, row))
         \/ fran_i # NoIdx /\ ~InRange(row, adj(fran_i, row))
    ELSE \/ Len(row) > adj(div_i, row) /\ ~InRange(row, adj(div_i, row))
         \/ /\ fran_i # NoIdx
            /\ Len(row) > adj(fran_i, row)
            /\ ~InRange(row, adj(fran_i, row))

\* exd of lines 160 and 590-593.
ExdOf(row) ==
    IF InRange(row, adj(ex_i, row))
    THEN parse_exdate(At(row, adj(ex_i, row)))
    ELSE None

\* amt of lines 161 and 595.
AmtOf(row) ==
    IF InRange(row, adj(div_i, row))
    THEN clean_amount_cell(At(row, adj(div_i, row)))
    ELSE None

\* fr_pct of lines 163-169 and 597-603.
FrPctOf(row) ==
    IF fran_i # NoIdx /\ InRange(row, adj(fran_i, row))
    THEN franking_of(At(row, adj(fran_i, row)))
    ELSE 0

\* inside with the last day of the window left out.
Inside_open_end(exd, amt) ==
    /\ exd # None
    /\ amt # None /\ amt[1] # 0
    /\ DateLE(fy[1], exd) /\ DateLT(exd, fy[2])

\* Line 171: inside = bool(exd and amt and fy_start <= exd <= fy_end); a date
\* is always true, an amount of 0.0 is false.
Inside(exd, amt) ==
    /\ exd # None
    /\ amt # None /\ amt[1] # 0
    /\ DateLE(fy[1], exd) /\ DateLE(exd, fy[2])

\* Accumulate summing the percentages themselves, as a mean would.
Accumulate_unweighted(e, amt, fr_pct) ==
    [e EXCEPT !.cash = @ + amt, !.franked_cash = @ + fr_pct]

\* Lines 172-174: cash += amt; franked_cash += amt * (fr_pct / 100.0).
\* franked_cash is kept in cents times percent (1/100 cent).
Accumulate(e, amt, fr_pct) ==
    [e EXCEPT !.cash = @ + amt, !.franked_cash = @ + amt * fr_pct]

\* The debug block (lines 176-186, 611-619) raises where it indexes tds again
\* at a place the body only read under a try.
DebugRaises(row) ==
    /\ variant = "bfs"
    /\ Len(row) > adj(ex_i, row)
    /\ ~InRange(row, adj(ex_i, row))

NewExecution == [st |-> "run", cash |-> 0, franked_cash |-> 0, dbg_rows |-> 0]

Raised == [st |-> "raised", cash |-> 0, franked_cash |-> 0, dbg_rows |-> 0]

NotCalled == [st |-> "off", cash |-> 0, franked_cash |-> 0, dbg_rows |-> 0]

\* One iteration of the row loop (lines 152-186, 580-619) in the execution e
\* called with `debug`.
LoopBody(e, row, debug) ==
    IF e.st # "run" THEN e
    ELSE IF BodyRaises(row) THEN Raised
    ELSE LET exd == ExdOf(row)
             amt == AmtOf(row)
             e1 == IF Inside(exd, amt) THEN Accumulate(e, amt[1], FrPctOf(row)) ELSE e
         IN  IF ~debug THEN e1
             ELSE IF DebugRaises(row) THEN Raised
             ELSE [e1 EXCEPT !.dbg_rows = @ + 1]

\* Returned answering a zero total with zeros, with and without debug.
Returned_zeros(e, debug) ==
    <<<<e.cash>>,
      IF e.cash = 0 THEN <<0>> ELSE <<Percent2(e.franked_cash, e.cash)>>>>

\* Lines 188-195, 622-635: what fetch_dividend_stats returns, as
\* <<total cash, franking>>: a number n is <<n>>, None is <<>>.  round(cash, 6)
\* keeps a whole number of cents; the percentage is in hundredths of a percent.
Returned(e, debug) ==
    IF debug
    THEN <<<<e.cash>>,
           IF e.cash = 0 THEN <<0>> ELSE <<Percent2(e.franked_cash, e.cash)>>>>
    ELSE IF e.cash = 0 THEN <<None, None>>
         ELSE <<<<e.cash>>, <<Percent2(e.franked_cash, e.cash)>>>>

(***************************************************************************)
(* The documents.  Their content is not known before it is read: a page's  *)
(* status and links are drawn when the page is fetched, a table's headers  *)
(* when the table loop reaches it, a row's cells when the row loop reaches *)
(* it.                                                                     *)
(***************************************************************************)
NumUrls == 2          \* the URLs of the site are 1..NumUrls; 1 is start_url
MaxFetches == 2       \* len(soups) is counted up to MaxFetches
MaxTables == 2        \* tables looked at in one page
MaxTotalRows == 2     \* rows iterated over in one request

Urls == 1..NumUrls

\* utcnow().date() at line 137: a day after and a day before 1 July.
Todays == {date(2025, 8, 15), date(2026, 3, 10)}

\* The ex-dates in the tables: the day before the window of Todays, its first
\* day, its last day and the day after.
ExDates == {date(2024, 6, 30), date(2024, 7, 1), date(2025, 6, 30), date(2025, 7, 1)}

ExDateCells == {DateCell(dt) : dt \in ExDates} \cup {TextCell}

AmountCells ==
    {DollarCell(100), CentCell(1), DollarCell(0), DollarCell(-100), TextCell}

FrankingCells == {PctCell(0), PctCell(100)}

T_plain == <<H_ex_dividend_date, H_dividend, H_franking>>
T_dist_first == <<H_distribution_type, H_ex_dividend_date, H_dividend, H_franking>>
T_dist_mid == <<H_ex_dividend_date, H_distribution_type, H_dividend, H_franking>>
T_no_franking == <<H_ex_dividend_date, H_dividend>>
T_other == <<H_name, H_value>>

\* The header rows a table of a page may have.
TablePool == {T_plain, T_dist_first, T_dist_mid, T_no_franking, T_other}

CellFor(h, dc, ac, fc) ==
    IF h = H_ex_dividend_date THEN dc
    ELSE IF h = H_dividend THEN ac
    ELSE IF h = H_franking THEN fc
    ELSE TextCell

\* "01 Jul 24", "$1.00", "100%": a dividend on the first day of the window.
BaseDate == DateCell(date(2024, 7, 1))
BaseAmount == DollarCell(100)
BaseFranking == PctCell(100)

\* The <<ex-date, amount, franking>> cells of a row: the base row with one of
\* its three cells replaced.
CellChoices ==
    {<<dc, BaseAmount, BaseFranking>> : dc \in ExDateCells}
        \cup {<<BaseDate, ac, BaseFranking>> : ac \in AmountCells}
        \cup {<<BaseDate, BaseAmount, fc>> : fc \in FrankingCells}

RowOf(ths, c) == [i \in 1..Len(ths) |-> CellFor(ths[i], c[1], c[2], c[3])]

\* The rows with one cell under each header.
FullRows(ths) == {RowOf(ths, c) : c \in CellChoices}

\* The rows that also come with a cell too many or with cells missing: a
\* dividend inside the window and one before it.
ShapedRows(ths) ==
    {RowOf(ths, <<dc, BaseAmount, BaseFranking>>) :
        dc \in {BaseDate, DateCell(date(2024, 6, 30))}}

\* A row with one descriptive cell more: after the distribution-type cell when
\* the table has that column, at the end otherwise.
Widened(ths, row) ==
    LET d == header_index(ths, <<S_distribution>>)
        k == IF d = NoIdx THEN Len(row) ELSE d + 1
    IN  SubSeq(row, 1, k) \o <<TextCell>> \o SubSeq(row, k + 1, Len(row))

\* The rows a table with the headers ths may hold (tbl.find_all("tr")[1:]):
\* full rows, widened rows, and rows that stop after their first k cells.
RowPool(ths) ==
    FullRows(ths)
        \cup {Widened(ths, r) : r \in ShapedRows(ths)}
        \cup {SubSeq(r, 1, k) : r \in ShapedRows(ths), k \in 0..(Len(ths) - 1)}

RECURSIVE Ascending(_)
Ascending(S) ==
    IF S = {} THEN <<>>
    ELSE LET m == CHOOSE x \in S : \A y \in S : x <= y
         IN  <<m>> \o Ascending(S \ {m})

InQueue(u, q) == \E i \in 1..Len(q) : q[i] = u

(***************************************************************************)
(* Responses of stock(): <<status, body, dividend12, franking>>.           *)
(***************************************************************************)
NoSymbol == <<400, "No symbol provided", None, None>>
PriceFailed == <<500, "Price fetch failed", None, None>>
\* An exception that leaves the view function: Flask answers 500.
Unhandled == <<500, "Internal Server Error", None, None>>
Answer(e, debug) ==
    <<200, IF debug THEN "debug" ELSE "stock", Returned(e, debug)[1], Returned(e, debug)[2]>>

Running(d) == ex[d].st = "run"

\* The executions after the step that turned them into `after`: one that
\* raised has its request answered, and the request is over when none runs.
Settle(after) ==
    /\ ex' = after
    /\ resp' = [d \in BOOLEAN |->
                  IF ex[d].st = "run" /\ after[d].st = "raised" THEN Unhandled ELSE resp[d]]
    /\ pc' = IF \E d \in BOOLEAN : after[d].st = "run" THEN pc ELSE "done"

(***************************************************************************)
(* stock (src/app.py:204-227), for the two requests ?symbol=..&debug and   *)
(* ?symbol=.. of the same symbol, served over the same documents.          *)
(***************************************************************************)
StockRequest ==
    /\ pc = "idle"
    /\ \/ \* line 207: no symbol
          /\ resp' = [d \in BOOLEAN |-> NoSymbol]
          /\ pc' = "done"
          /\ UNCHANGED <<ex, next_url, queue>>
       \/ \* lines 216-219: the price fetch of the plain request fails
          /\ resp' = [resp EXCEPT ![FALSE] = PriceFailed]
          /\ pc' = "done"
          /\ UNCHANGED <<ex, next_url, queue>>
       \/ \* lines 214 and 221: fetch_dividend_stats is called
          /\ ex' = [d \in BOOLEAN |-> NewExecution]
          /\ pc' = "pages"
          /\ next_url' = 1
          /\ queue' = <<1>>
          /\ UNCHANGED resp
    /\ UNCHANGED <<sideVars, variant, visited, soups, tableVars, loopVars>>

\* get_all_pages, lines 114-125: one turn of `while next_url`.  The status of
\* the response is not looked at: whatever body came back is parsed.
FetchNext ==
    /\ pc = "pages" /\ variant = "next" /\ next_url # 0
    /\ \E nxt \in 0..NumUrls :
          /\ soups' = IF soups < MaxFetches THEN soups + 1 ELSE soups
          /\ next_url' = nxt
    /\ UNCHANGED <<sideVars, variant, pc, queue, visited, tableVars, loopVars, ex, resp>>

\* get_all_pages, lines 528-549: one turn of `while queue`.
FetchBfs ==
    /\ pc = "pages" /\ variant = "bfs" /\ queue # <<>>
    /\ LET url == Head(queue) IN
       \E status_ok \in BOOLEAN, links \in SUBSET Urls :
          /\ visited' = visited \cup {url}
          /\ IF status_ok
             THEN /\ soups' = soups + 1
                  /\ queue' = Tail(queue) \o
                        Ascending({u \in links :
                            u \notin visited' /\ ~InQueue(u, Tail(queue))})
             ELSE /\ queue' = Tail(queue)
                  /\ UNCHANGED soups
    /\ UNCHANGED <<sideVars, variant, pc, next_url, tableVars, loopVars, ex, resp>>

\* sess.get raises (connection error, timeout): nothing between it and Flask
\* catches the exception.  In the breadth-first revision the URL has been
\* taken from the queue and added to visited before the request (lines
\* 529-532).
FetchRaises ==
    /\ pc = "pages"
    /\ \/ /\ variant = "next" /\ next_url # 0
          /\ UNCHANGED <<queue, visited>>
       \/ /\ variant = "bfs" /\ queue # <<>>
          /\ visited' = visited \cup {Head(queue)}
          /\ queue' = Tail(queue)
    /\ Settle([d \in BOOLEAN |-> IF Running(d) THEN Raised ELSE ex[d]])
    /\ UNCHANGED <<sideVars, variant, next_url, soups, tableVars, loopVars>>

\* get_all_pages returns (next_url and queue are gone; the visited URLs are
\* returned in the crawl trace, lines 551 and 559); line 137 computes the
\* window, line 141 starts the loop over the soups.
PagesDone ==
    /\ pc = "pages"
    /\ \/ variant = "next" /\ next_url = 0
       \/ variant = "bfs" /\ queue = <<>>
    /\ \E today \in Todays : fy' = previous_fy_bounds(today)
    /\ si' = 1
    /\ ti' = 0
    /\ pc' = "soup"
    /\ next_url' = 0 /\ queue' = <<>>
    /\ UNCHANGED <<sideVars, variant, visited, soups, tableVars, tds, nrows, had_table, events, ex, resp>>

\* Line 142: a table that wanted_table rejects is passed over.
SkipTable ==
    /\ pc = "soup" /\ si <= soups /\ ti < MaxTables
    /\ \E ths \in TablePool : ~wanted_table(ths)
    /\ ti' = ti + 1
    /\ UNCHANGED <<sideVars, variant, pc, walkVars, tableVars, fy, si, tds, nrows, had_table, events, ex, resp>>

\* Lines 142-150: a wanted table; its columns are resolved and its rows follow.
EnterTable ==
    /\ pc = "soup" /\ si <= soups /\ ti < MaxTables
    /\ \E ths \in TablePool :
          /\ wanted_table(ths)
          /\ hdrs' = ths
          /\ ex_i' = header_index(ths, <<S_ex>>)
          /\ div_i' = header_index(ths, <<S_dividend>>)
          /\ fran_i' = header_index(ths, <<S_franking>>)
          /\ dist_i' = IF variant = "next"
                       THEN header_index(ths, <<S_distribution>>) ELSE NoIdx
          /\ pc' = IF ex_i' = NoIdx \/ div_i' = NoIdx THEN "soup" ELSE "rows"
    /\ ti' = ti + 1
    /\ UNCHANGED <<sideVars, variant, walkVars, fy, si, tds, nrows, had_table, events, ex, resp>>

\* The row the loop is at qualifies: its ex-date and its amount parsed and the
\* ex-date lies in the window, both ends included.
Qualifies(row) ==
    /\ ExdOf(row) # None
    /\ AmtOf(row) # None
    /\ DateLE(fy[1], ExdOf(row)) /\ DateLE(ExdOf(row), fy[2])

\* Lines 152-186 and 580-619: one row, in both executions.
ProcessRow ==
    /\ pc = "rows" /\ nrows < MaxTotalRows
    /\ \E row \in RowPool(hdrs) :
          /\ tds' = row
          /\ Settle([d \in BOOLEAN |-> LoopBody(ex[d], row, d)])
          /\ events' = IF ~BodyRaises(row) /\ Qualifies(row)
                       THEN events (+) SetToBag({<<AmtOf(row)[1], FrPctOf(row)>>})
                       ELSE events
    /\ nrows' = nrows + 1
    /\ UNCHANGED <<sideVars, variant, walkVars, tableVars, fy, si, ti, had_table>>

\* The rows of the table are exhausted.  The locals of the table and of its
\* last row are not read again before they are assigned: they are cleared.
EndTable ==
    /\ pc = "rows"
    /\ pc' = "soup"
    /\ hdrs' = <<>>
    /\ ex_i' = NoIdx /\ div_i' = NoIdx /\ fran_i' = NoIdx /\ dist_i' = NoIdx
    /\ tds' = <<>>
    /\ had_table' = TRUE
    /\ UNCHANGED <<sideVars, variant, walkVars, fy, si, ti, nrows, events, ex, resp>>

\* The tables of the soup are exhausted.
EndSoup ==
    /\ pc = "soup" /\ si <= soups
    /\ si' = si + 1
    /\ ti' = 0
    /\ had_table' = FALSE
    /\ UNCHANGED <<sideVars, variant, pc, walkVars, tableVars, fy, tds, nrows, events, ex, resp>>

\* Lines 188-195 and 221-227: fetch_dividend_stats returns and stock answers.
Return ==
    /\ pc = "soup" /\ si > soups
    /\ resp' = [d \in BOOLEAN |-> IF Running(d) THEN Answer(ex[d], d) ELSE resp[d]]
    /\ ex' = [d \in BOOLEAN |-> IF Running(d) THEN [ex[d] EXCEPT !.st = "ret"] ELSE ex[d]]
    /\ pc' = "done"
    /\ UNCHANGED <<sideVars, variant, walkVars, tableVars, loopVars>>

(***************************************************************************)
(* src/scrape_fran_cache.py: fetch_franking_asx and main.  Dates are day   *)
(* numbers (date.toordinal), amounts are in cents, franking in percent.    *)
(***************************************************************************)
NumCodes == 2
MaxAsxRows == 2

\* The codes a cache file may hold: those ASX_CODES may list, and one more.
AllCodes == 1..(NumCodes + 1)

\* ASX_CODES (line 14) is configuration: the first k codes, k = 1 as shipped.
CodeLists == {[i \in 1..k |-> i] : k \in 1..NumCodes}

\* An entry written by an earlier run, and the entry main builds (lines
\* 87-90): <<franking, timestamp>>.
OldEntry == <<5000, "old">>
NewEntry(f) == <<f, "now">>

\* franking_cache.json: entries for some of the codes; no file reads as no
\* entries (line 74).
CacheFiles == UNION {[S -> {OldEntry}] : S \in SUBSET AllCodes}

\* datetime.utcnow().date() of the run, as a day number.
AsxTodays == {1000, 1001}

\* The text of a cell with a date in "%d %b %Y", and a text that float()
\* rejects after clean_num's substitution, such as "1.2.3".
DayCell(n) == <<"day", n, 0, 0>>
BadNumberCell == <<"badnum", 0, 0, 0>>

\* clean_num (lines 18-22): digits and dots are kept, a sign is dropped, an
\* empty rest is "0"; a one-element tuple, or "ValueError" when float() raises.
clean_num(td) ==
    CASE Kind(td) = "dollars" -> <<Abs(td[2])>>
      [] Kind(td) = "cents"   -> <<td[2]>>
      [] Kind(td) = "pct"     -> <<td[2]>>
      [] Kind(td) = "day"     -> <<td[2]>>
      [] Kind(td) = "badnum"  -> "ValueError"
      [] OTHER                -> <<0>>

\* Lines 50-53: datetime.strptime(date_txt, "%d %b %Y").date(), None when it
\* raises ValueError.
asx_strptime(td) == IF Kind(td) = "day" THEN <<td[2]>> ELSE None

\* The rows of the table: six cells, ex-date last, amount and franking before
\* it; and a row of five cells.
AsxRow(amt, frank, day) == <<TextCell, TextCell, TextCell, amt, frank, day>>

AsxDayCells ==
    {DayCell(n) : n \in {634, 635, 636, 1000, 1001, 1002}} \cup {TextCell}

AsxAmountCells == {DollarCell(100), DollarCell(0), DollarCell(-100), BadNumberCell}

AsxFrankingCells == {PctCell(100), PctCell(0), TextCell}

AsxRowPool ==
    {AsxRow(DollarCell(100), PctCell(100), d) : d \in AsxDayCells}
    \cup {AsxRow(a, PctCell(100), DayCell(1000)) : a \in AsxAmountCells}
    \cup {AsxRow(DollarCell(100), f, DayCell(1000)) : f \in AsxFrankingCells}
    \cup {<<TextCell, TextCell, TextCell, DollarCell(100), PctCell(100)>>}

\* Lines 46-63, the body of `for tr in rows`: the new <<tot_div, tot_frank>>,
\* or "ValueError" when clean_num raises.
asx_row_body(row, cut, td, tf) ==
    IF Len(row) < 6 THEN <<td, tf>>
    ELSE LET ex_date == asx_strptime(row[6]) IN
         IF ex_date = None THEN <<td, tf>>
         ELSE IF ex_date[1] < cut THEN <<td, tf>>
         ELSE LET amt == clean_num(row[4])
                  frank == clean_num(row[5])
              IN  IF amt = "ValueError" \/ frank = "ValueError" THEN "ValueError"
                  ELSE <<td + amt[1], tf + amt[1] * frank[1]>>

\* Lines 65-70: None when tot_div <= 0, else the weighted percentage.
asx_result(td, tf) == IF td <= 0 THEN None ELSE <<Percent2(tf, td)>>

\* main storing an entry whatever the fetch gave, 0 for None.
store_always(d, code, f) ==
    [c \in (DOMAIN d) \cup {code} |->
        IF c = code THEN NewEntry(IF f = None THEN 0 ELSE f[1]) ELSE d[c]]

\* Lines 84-90: data[code] is set when fran is not None.
store(d, code, f) ==
    IF f = None THEN d
    ELSE [c \in (DOMAIN d) \cup {code} |-> IF c = code THEN NewEntry(f[1]) ELSE d[c]]

\* No run of the script.
NoCacheRun ==
    /\ m_pc = "off"
    /\ codes = <<>> /\ cache = None /\ data = None /\ ci = 0
    /\ asx_today = 0 /\ cutoff = 0 /\ tot_div = 0 /\ tot_frank = 0
    /\ asx_tds = <<>> /\ asx_rows = 0
    /\ fran = None /\ outcomes = <<>>

\* The script is started: some ASX_CODES, some cache file.
InitCache ==
    /\ m_pc = "start"
    /\ codes \in CodeLists
    /\ cache \in CacheFiles
    /\ data = None /\ ci = 0
    /\ asx_today = 0 /\ cutoff = 0 /\ tot_div = 0 /\ tot_frank = 0
    /\ asx_tds = <<>> /\ asx_rows = 0
    /\ fran = None /\ outcomes = <<>>

asxVars == <<asx_today, cutoff, tot_div, tot_frank, asx_tds, asx_rows>>

\* main, lines 74-76: data = {} or the entries of the cache file.
LoadCache ==
    /\ m_pc = "start"
    /\ data' = IF cache = None THEN <<>> ELSE cache
    /\ ci' = 1
    /\ m_pc' = "loop"
    /\ UNCHANGED <<codes, cache, asxVars, fran, outcomes, nonCacheVars>>

\* The fetch of codes[ci] ends with `f` (None after an exception, lines
\* 82-84); main stores it and goes to the next code.
EndFetch(f, how) ==
    /\ fran' = f
    /\ data' = store(data, codes[ci], f)
    /\ outcomes' = Append(outcomes, how)
    /\ ci' = ci + 1
    /\ m_pc' = "loop"
    /\ asx_tds' = <<>> /\ asx_rows' = 0
    /\ tot_div' = 0 /\ tot_frank' = 0 /\ cutoff' = 0 /\ asx_today' = 0

\* main line 81 and fetch_franking_asx lines 29-38: the request.
FetchAsx ==
    /\ m_pc = "loop" /\ ci <= Len(codes)
    /\ \/ \* requests.get or raise_for_status raises; main catches it
          /\ EndFetch(None, "raised")
          /\ UNCHANGED <<codes, cache>>
       \/ \* no table, or a table without tbody: return None
          /\ EndFetch(None, "none")
          /\ UNCHANGED <<codes, cache>>
       \/ \* lines 40-43: the row loop starts
          /\ \E today \in AsxTodays :
                /\ asx_today' = today
                /\ cutoff' = today - 365
          /\ tot_div' = 0 /\ tot_frank' = 0
          /\ asx_tds' = <<>> /\ asx_rows' = 0
          /\ m_pc' = "rows"
          /\ UNCHANGED <<codes, cache, data, ci, fran, outcomes>>
    /\ UNCHANGED nonCacheVars

\* Lines 45-63: one row.
AsxProcessRow ==
    /\ m_pc = "rows" /\ asx_rows < MaxAsxRows
    /\ \E row \in AsxRowPool :
          LET r == asx_row_body(row, cutoff, tot_div, tot_frank) IN
          IF r = "ValueError"
          THEN /\ EndFetch(None, "raised")
               /\ UNCHANGED <<codes, cache>>
          ELSE /\ asx_tds' = row
               /\ tot_div' = r[1] /\ tot_frank' = r[2]
               /\ asx_rows' = asx_rows + 1
               /\ UNCHANGED <<m_pc, codes, cache, data, ci, asx_today, cutoff, fran, outcomes>>
    /\ UNCHANGED nonCacheVars

\* Lines 65-70: fetch_franking_asx returns.
AsxReturn ==
    /\ m_pc = "rows"
    /\ LET f == asx_result(tot_div, tot_frank) IN
       EndFetch(f, IF f = None THEN "none" ELSE "value")
    /\ UNCHANGED <<codes, cache, nonCacheVars>>

\* Line 92: CACHE.write_text(json.dumps(data)).
WriteCache ==
    /\ m_pc = "loop" /\ ci > Len(codes)
    /\ cache' = data
    /\ m_pc' = "written"
    /\ UNCHANGED <<codes, data, ci, asxVars, fran, outcomes, nonCacheVars>>

(***************************************************************************)
(* The state before a request.                                             *)
(***************************************************************************)
NoRequest ==
    /\ pc = "idle"
    /\ next_url = 0 /\ queue = <<>> /\ visited = {} /\ soups = 0
    /\ fy = None /\ si = 0 /\ ti = 0
    /\ hdrs = <<>> /\ ex_i = NoIdx /\ div_i = NoIdx /\ fran_i = NoIdx /\ dist_i = NoIdx
    /\ tds = <<>> /\ nrows = 0 /\ had_table = FALSE
    /\ ex = [d \in BOOLEAN |-> NotCalled]
    /\ resp = [d \in BOOLEAN |-> None]
    /\ events = EmptyBag

\* header_index has not been called.
NoHeaderCall == hi_headers = <<>> /\ hi_needles = <<>> /\ hi_result = None

(***************************************************************************)
(* Specification SpecFY: previous_fy_bounds applied to every calendar date *)
(* of the years YearLo..YearHi.                                            *)
(***************************************************************************)
InitFY ==
    /\ ref_date \in CalendarDates
    /\ fy_result = None
    /\ NoHeaderCall
    /\ NoCacheRun
    /\ variant = "next"
    /\ NoRequest

CallFY ==
    /\ fy_result = None
    /\ fy_result' = previous_fy_bounds(ref_date)
    /\ UNCHANGED <<ref_date, hiVars, cacheVars, requestVars>>

NextReferenceDate ==
    /\ fy_result # None
    /\ NextDay(ref_date) \in CalendarDates
    /\ ref_date' = NextDay(ref_date)
    /\ fy_result' = None
    /\ UNCHANGED <<hiVars, cacheVars, requestVars>>

NextFY == CallFY \/ NextReferenceDate

SpecFY == InitFY /\ [][NextFY]_vars

(***************************************************************************)
(* Specification SpecHI: header_index applied to header rows and to lists  *)
(* of one to MaxNeedles needles.                                           *)
(***************************************************************************)
MaxNeedles == 2

\* The needles of the call sites, and 'date'.
NeedlePool == {S_ex, S_dividend, S_franking, S_distribution, S_date}

NeedleLists == UNION {[1..k -> NeedlePool] : k \in 1..MaxNeedles}

\* Header rows: those of the tables, and rows with a column headed 'date'
\* or 'dividend' alone next to a longer header.
HeaderPool ==
    TablePool \cup {<<H_ex_dividend_date, S_date>>,
                    <<H_name, H_ex_dividend_date, H_dividend>>,
                    <<>>}

InitHI ==
    /\ hi_headers \in HeaderPool
    /\ hi_needles \in NeedleLists
    /\ hi_result = None
    /\ ref_date = date(YearLo, 1, 1) /\ fy_result = None
    /\ NoCacheRun
    /\ variant = "next"
    /\ NoRequest

CallHI ==
    /\ hi_result = None
    /\ hi_result' = <<header_index(hi_headers, hi_needles)>>
    /\ UNCHANGED <<hi_headers, hi_needles, fyVars, cacheVars, requestVars>>

NextHI == CallHI

SpecHI == InitHI /\ [][NextHI]_vars

(***************************************************************************)
(* Specification SpecCache: one run of scrape_fran_cache.py.               *)
(***************************************************************************)
InitCacheRun ==
    /\ InitCache
    /\ ref_date = date(YearLo, 1, 1) /\ fy_result = None
    /\ NoHeaderCall
    /\ variant = "next"
    /\ NoRequest

NextCache ==
    \/ LoadCache
    \/ FetchAsx
    \/ AsxProcessRow
    \/ AsxReturn
    \/ WriteCache

SpecCache == InitCacheRun /\ [][NextCache]_vars

(***************************************************************************)
(* Specification Spec: one symbol requested with and without debug.        *)
(***************************************************************************)
Init ==
    /\ ref_date = date(YearLo, 1, 1)
    /\ fy_result = None
    /\ NoHeaderCall
    /\ NoCacheRun
    /\ variant \in {"next", "bfs"}
    /\ NoRequest

Next ==
    \/ StockRequest
    \/ FetchNext
    \/ FetchBfs
    \/ FetchRaises
    \/ PagesDone
    \/ SkipTable
    \/ EnterTable
    \/ ProcessRow
    \/ EndTable
    \/ EndSoup
    \/ Return

Spec == Init /\ [][Next]_vars

\* get_all_pages runs on: a loop that can take a turn takes it.
FairSpec == Spec /\ WF_vars(Next)

(***************************************************************************)
(* Properties.                                                             *)
(***************************************************************************)
\* The financial year started on 1 July of year Y, as the claim gives Y.
ClaimedStartYear(d) == IF Month(d) >= 7 THEN Year(d) - 1 ELSE Year(d) - 2

\* C1: for every reference date d, previous_fy_bounds(d) is (1 July Y, 30 June
\* Y+1) with Y = d.year - 1 when d.month >= 7 and d.year - 2 otherwise; the end
\* is a 30 June, the start is 1 July of the calendar year before the end, and
\* the whole window lies strictly before d.
C1_FyBounds ==
    fy_result # None =>
        LET s == fy_result[1]
            e == fy_result[2]
        IN  /\ s = <<ClaimedStartYear(ref_date), 7, 1>>
            /\ e = <<ClaimedStartYear(ref_date) + 1, 6, 30>>
            /\ Month(e) = 6 /\ Day(e) = 30
            /\ Month(s) = 7 /\ Day(s) = 1 /\ Year(s) = Year(e) - 1
            /\ DateLT(s, e)
            /\ DateLT(e, ref_date)

\* Witness of C1: the call has returned for a 1 July, the first day for which
\* the year that ended the day before is the completed one.
C1_Witness ==
    /\ fy_result # None
    /\ Month(ref_date) = 7 /\ Day(ref_date) = 1
    /\ fy_result[2] = <<Year(ref_date), 6, 30>>

\* A step of the row loop: ProcessRow, the only action that counts a row.
RowStep == pc = "rows" /\ nrows' = nrows + 1

\* C2: a row adds to cash and franked_cash if and only if its ex-date and its
\* amount both parsed and fy_start <= ex_date <= fy_end, both ends included;
\* any other row leaves both accumulators as they were.  (What it adds is its
\* amount, and its amount times its franking percentage.)
C2_RowAddsIffInWindow ==
    [][RowStep =>
        \A d \in BOOLEAN :
            (ex[d].st = "run" /\ ex'[d].st = "run") =>
                IF Qualifies(tds')
                THEN /\ ex'[d].cash = ex[d].cash + AmtOf(tds')[1]
                     /\ ex'[d].franked_cash =
                            ex[d].franked_cash + AmtOf(tds')[1] * FrPctOf(tds')
                ELSE /\ ex'[d].cash = ex[d].cash
                     /\ ex'[d].franked_cash = ex[d].franked_cash]_vars

\* Witness of C2: the second row of the request has the last day of the window
\* as its ex-date, the first row had the first day, and both were added.
C2_Witness ==
    /\ pc = "rows" /\ nrows = 2
    /\ ExdOf(tds) = fy[2]
    /\ events = SetToBag({<<100, 100>>}) (+) SetToBag({<<100, 100>>})
    /\ ex[FALSE].st = "run" /\ ex[FALSE].cash = 200

\* The sums over a bag of <<amount, franking>> events.
RECURSIVE CashOf(_)
CashOf(B) ==
    IF DOMAIN B = {} THEN 0
    ELSE LET e == CHOOSE x \in DOMAIN B : TRUE
         IN  B[e] * e[1] + CashOf([x \in DOMAIN B \ {e} |-> B[x]])

RECURSIVE FrankedOf(_)
FrankedOf(B) ==
    IF DOMAIN B = {} THEN 0
    ELSE LET e == CHOOSE x \in DOMAIN B : TRUE
         IN  B[e] * e[1] * e[2] + FrankedOf([x \in DOMAIN B \ {e} |-> B[x]])

\* r is n / d rounded to the nearest integer (to the even one at a tie), d > 0.
IsRounded(r, n, d) ==
    /\ 2 * Abs(r * d - n) <= d
    /\ 2 * Abs(r * d - n) = d => r % 2 = 0

\* The plain request was answered by fetch_dividend_stats returning.
PlainReturned == pc = "done" /\ ex[FALSE].st = "ret"

\* The events of the example: 100 at 0% and 1 at 100%.
ExampleEvents == SetToBag({<<100, 0>>, <<1, 100>>})

\* C3: when the total cash of the qualifying events is positive, the reported
\* franking percentage is 100 * sum(cash * franking / 100) / sum(cash), rounded
\* to two places: the cash-weighted average, which for the events {100, 0%} and
\* {1, 100%} is 0.99 and not 50.
C3_CashWeighted ==
    (PlainReturned /\ CashOf(events) > 0) =>
        /\ resp[FALSE][4] # None
        /\ IsRounded(resp[FALSE][4][1], 100 * FrankedOf(events), CashOf(events))
        /\ events = ExampleEvents => resp[FALSE][4] = <<99>>

\* Witness of C3: the request over the example's two events has been answered.
C3_Witness ==
    /\ PlainReturned
    /\ events = ExampleEvents
    /\ resp[FALSE] = <<200, "stock", <<101>>, <<99>>>>

\* C4 as claimed: fetch_dividend_stats (without debug) returns (None, None)
\* exactly when no row qualified as an in-window event with a valid date and a
\* valid amount, and two numbers otherwise; never one None without the other.
C4_NoneIffNoQualifyingRow ==
    PlainReturned =>
        /\ (resp[FALSE][3] = None) <=> (events = EmptyBag)
        /\ (resp[FALSE][3] = None) <=> (resp[FALSE][4] = None)

\* C4 as amended: fetch_dividend_stats (without debug) returns (None, None)
\* exactly when the total cash of the qualifying rows is zero: always when no
\* row qualified, and also when the qualifying amounts are all zero or cancel;
\* otherwise it returns two numbers, the first the total cash; never one None
\* without the other.
C4_NoneIffZeroTotal ==
    PlainReturned =>
        /\ (resp[FALSE][3] = None) <=> (CashOf(events) = 0)
        /\ events = EmptyBag => resp[FALSE][3] = None
        /\ resp[FALSE][3] # None => resp[FALSE][3] = <<CashOf(events)>>
        /\ (resp[FALSE][3] = None) <=> (resp[FALSE][4] = None)

\* Witness of C4: a request whose only qualifying row has the amount "$0.00"
\* was answered (None, None).
C4_Witness ==
    /\ PlainReturned
    /\ events = SetToBag({<<0, 100>>})
    /\ resp[FALSE] = <<200, "stock", None, None>>

\* A result the caller can use: status 200 with both fields present or both
\* null.
WellFormed(r) ==
    /\ r # None
    /\ r[1] = 200
    /\ (r[3] = None) <=> (r[4] = None)

\* C6: when a page fetch fails, each request being served is still answered
\* with a well-formed result; no exception leaves fetch_dividend_stats and
\* stock.
C6_FetchFailureAnswered ==
    [][FetchRaises => \A d \in BOOLEAN : Running(d) => WellFormed(resp'[d])]_vars

\* C7: the traversal of the pagination ends for every input, trails with
\* cycles and self-links included: get_all_pages is eventually left.
C7_WalkTerminates == (pc = "pages") ~> (pc # "pages")

\* Both requests reached fetch_dividend_stats.
BothCalled == pc = "done" /\ ex[TRUE].st # "off" /\ ex[FALSE].st # "off"

\* C8: over the same documents and the same reference date, the request with
\* debug and the request without it get the same aggregate: the same total
\* cash and the same franking percentage, or the same absence of data.
C8_DebugSameAggregate ==
    BothCalled =>
        /\ ex[TRUE].st = ex[FALSE].st
        /\ resp[TRUE][3] = resp[FALSE][3]
        /\ resp[TRUE][4] = resp[FALSE][4]

\* The largest of the resolved column indices (fran_i may be NoIdx).
MaxIndex ==
    LET m == IF ex_i > div_i THEN ex_i ELSE div_i
    IN  IF fran_i > m THEN fran_i ELSE m

\* A row with too few cells to hold every resolved column.
Short(row) == Len(row) <= MaxIndex

\* C9: a row too short to hold the resolved columns is skipped: it adds
\* nothing to the accumulators, raises no error, and the rows after it are
\* still processed (the execution goes on running).
C9_ShortRowSkipped ==
    [][(RowStep /\ Short(tds')) =>
        \A d \in BOOLEAN :
            Running(d) =>
                /\ ex'[d].st = "run"
                /\ ex'[d].cash = ex[d].cash
                /\ ex'[d].franked_cash = ex[d].franked_cash]_vars

\* The distribution-type column of the current table, NoIdx if it has none.
DistributionColumn == header_index(hdrs, <<S_distribution>>)

\* The resolved column indices of the current table.
ResolvedIndices == {ex_i, div_i, fran_i} \ {NoIdx}

\* C10: in a row with more cells than the table has headers, of a table with
\* a distribution-type column, a resolved index strictly after that column is
\* looked up at index + (len(cells) - len(headers)), an index at or before it
\* is looked up as it is, and the cell looked up is inside the row.
C10_ShiftAfterDistribution ==
    (pc = "rows" /\ Len(tds) > Len(hdrs) /\ DistributionColumn # NoIdx) =>
        \A idx \in ResolvedIndices :
            /\ adj(idx, tds) = IF idx > DistributionColumn
                               THEN idx + (Len(tds) - Len(hdrs))
                               ELSE idx
            /\ 0 <= adj(idx, tds) /\ adj(idx, tds) < Len(tds)

\* Needle n matches header h in one of the two tiers.
Matches(n, h) == Strip(h) = n \/ IsSubstring(n, h)

\* The needles of the call that match some header, by position.
MatchingNeedles ==
    {k \in 1..Len(hi_needles) :
        \E i \in 1..Len(hi_headers) : Matches(Lower(hi_needles[k]), hi_headers[i])}

\* The first needle of the call that matches some header.
EarliestMatching == CHOOSE k \in MatchingNeedles : \A j \in MatchingNeedles : k <= j

\* C11: header_index(headers, n1, ..., nk) lets the earliest fragment win:
\* when some fragment matches a header (exactly or as a substring), the index
\* returned is a header matched by the first such fragment, even when a later
\* fragment matches another header exactly; None is returned only when no
\* fragment matches any header.
C11_EarlierNeedleWins ==
    hi_result # None =>
        IF MatchingNeedles = {}
        THEN hi_result[1] = NoIdx
        ELSE /\ hi_result[1] # NoIdx
             /\ Matches(Lower(hi_needles[EarliestMatching]), hi_headers[hi_result[1] + 1])

\* C12: within one document only the first qualifying table in document order
\* contributes rows: no row of a later qualifying table of the same document
\* is counted as an event; and passing over a table that does not qualify
\* contributes nothing and raises no error.
C12_OnlyFirstTable ==
    [][/\ (RowStep /\ events' # events) => ~had_table
       /\ SkipTable => UNCHANGED <<ex, resp, events>>]_vars

\* Some page of the trail was requested and did not yield a document: its
\* request raised, or its status was not 200 (breadth-first revision).
PageFailed == variant = "bfs" /\ Cardinality(visited) > soups

\* C13: aggregation is all-or-nothing: when a page of the pagination trail
\* failed to fetch, the caller is not returned an aggregate computed from the
\* pages that did load.
C13_AllOrNothing ==
    (pc = "done" /\ PageFailed /\ resp[FALSE] # None) =>
        ~(resp[FALSE][1] = 200 /\ resp[FALSE][3] # None)

\* A step of the row loop of fetch_franking_asx that ends with the row read.
AsxRowStep == m_pc = "rows" /\ asx_rows' = asx_rows + 1

\* The row has an ex-date in [today - 365 days, today].
InRollingWindow(row) ==
    /\ Len(row) >= 6
    /\ asx_strptime(row[6]) # None
    /\ asx_today - 365 <= asx_strptime(row[6])[1]
    /\ asx_strptime(row[6])[1] <= asx_today

\* C14: in fetch_franking_asx a row counts toward tot_div and tot_frank if and
\* only if today - 365 days <= ex_date <= today: a row older than the cutoff
\* and a row with an ex-date after today both leave the totals as they were.
C14_RollingWindow ==
    [][AsxRowStep =>
        IF InRollingWindow(asx_tds')
        THEN /\ tot_div' = tot_div + clean_num(asx_tds'[4])[1]
             /\ tot_frank' =
                    tot_frank + clean_num(asx_tds'[4])[1] * clean_num(asx_tds'[5])[1]
        ELSE /\ tot_div' = tot_div
             /\ tot_frank' = tot_frank]_vars

\* C15: at every point of the row loop of fetch_dividend_stats the
\* accumulators satisfy 0 <= franked_cash <= cash (franked_cash is kept here
\* in cents times percent, hence the factor 100); every reported total cash is
\* non-negative and every reported franking percentage lies in [0, 100].
C15_AccumulatorRange ==
    /\ \A d \in BOOLEAN :
          ex[d].st \in {"run", "ret"} =>
              /\ 0 <= ex[d].franked_cash
              /\ ex[d].franked_cash <= 100 * ex[d].cash
    /\ (PlainReturned /\ resp[FALSE][3] # None) =>
          /\ resp[FALSE][3][1] >= 0
          /\ 0 <= resp[FALSE][4][1] /\ resp[FALSE][4][1] <= 10000

\* The entry of code c in a cache file or dict, None when it has none.
Entry(f, c) == IF c \in DOMAIN f THEN f[c] ELSE None

\* The codes of ASX_CODES whose fetch has ended without a value.
FailedCodes == {codes[k] : k \in {j \in 1..Len(outcomes) : outcomes[j] # "value"}}

\* The codes ASX_CODES lists.
ListedCodes == {codes[k] : k \in 1..Len(codes)}

\* C16: in main, a code whose fetch raises or returns None leaves the entry of
\* that code as it was, in data and in the file written; the entries of the
\* codes that ASX_CODES does not list are written back as they were; and the
\* file is written only after every code of ASX_CODES has been processed.
C16_FailedFetchKeepsEntry ==
    [][/\ (m_pc \in {"loop", "rows"} /\ ci' = ci + 1 /\ fran' = None) => data' = data
       /\ WriteCache =>
            /\ Len(outcomes) = Len(codes)
            /\ \A c \in AllCodes :
                  (c \in FailedCodes \/ c \notin ListedCodes) =>
                      Entry(cache', c) = Entry(cache, c)]_vars

\* Witness of C16: of two codes the fetch of the first raised and that of the
\* second gave 100%; the file written holds the old entry of the first, the
\* new entry of the second and the old entry of a code not listed.
C16_Witness ==
    /\ m_pc = "written"
    /\ codes = <<1, 2>>
    /\ outcomes = <<"raised", "value">>
    /\ cache = [c \in 1..3 |-> IF c = 2 THEN NewEntry(10000) ELSE OldEntry]

====
